---- MODULE Spec2Model ----
(***************************************************************************)
(* Agent orchestration loop of the Mantle no-code agent builder            *)
(* (src/agent/main.py): chat_with_agent compiles the declared tool graph,  *)
(* process_agent_conversation drives the provider / tool loop and          *)
(* execute_tool dispatches one HTTP request per tool call.                 *)
(*                                                                         *)
(* One request is followed from its arrival to the outcome the caller      *)
(* sees.  The provider (LLM) and the tool endpoints are the environment:   *)
(* every provider turn and every endpoint outcome is a nondeterministic    *)
(* choice.                                                                 *)
(***************************************************************************)
EXTENDS Integers, Sequences, FiniteSets, TLC

(***************************************************************************)
(* Bounds of the exploration.                                              *)
(***************************************************************************)
\* largest iteration cap explored (the parameter max_iterations, line 316,
\* defaults to 10; the loop is uniform in the cap)
MaxCap == 3
\* most tool-call requests the provider puts in one assistant turn
MaxBatch == 2
\* most tool-call requests the provider emits over one conversation
MaxCalls == 3

None == "None"

Falsy(x) == x \in {None, ""}

Last(s) == s[Len(s)]

(***************************************************************************)
(* TOOL_DEFINITIONS (lines 17-168): per tool the endpoint path, whether    *)
(* the endpoint holds the "{address}" placeholder, the HTTP method and the *)
(* names of the schema's properties.                                       *)
(***************************************************************************)
ToolDef(path, placeholder, method, properties) ==
    [endpoint |-> path, placeholder |-> placeholder, method |-> method,
     properties |-> properties]

TOOL_DEFINITIONS ==
    [transfer |-> ToolDef("/transfer", FALSE, "POST",
                          {"privateKey", "toAddress", "amount", "tokenAddress"}),
     swap |-> ToolDef("/swap", FALSE, "POST",
                      {"privateKey", "tokenIn", "tokenOut", "amountIn",
                       "slippageTolerance"}),
     get_balance |-> ToolDef("/balance/{address}", TRUE, "GET", {"address"}),
     deploy_erc20 |-> ToolDef("/deploy-token", FALSE, "POST",
                              {"privateKey", "name", "symbol", "initialSupply"}),
     deploy_erc721 |-> ToolDef("/create-nft-collection", FALSE, "POST",
                               {"privateKey", "name", "symbol"}),
     create_dao |-> ToolDef("/create-dao", FALSE, "POST",
                            {"privateKey", "name", "votingPeriod",
                             "quorumPercentage"}),
     airdrop |-> ToolDef("/airdrop", FALSE, "POST",
                         {"privateKey", "recipients", "amount"}),
     fetch_price |-> ToolDef("/token-price", FALSE, "POST", {"query"}),
     deposit_yield |-> ToolDef("/yield", FALSE, "POST",
                               {"privateKey", "tokenAddress", "depositAmount",
                                "apyPercent"}),
     wallet_analytics |-> ToolDef("/api/balance/erc20", FALSE, "POST",
                                  {"address"})]

\* the tool types the workflow builder emits
\* (src/WorkflowBuilder/main.py, lines 41-52)
AVAILABLE_TOOLS ==
    {"transfer", "swap", "stt_balance_fetch", "deploy_erc20", "deploy_erc721",
     "create_dao", "airdrop", "fetch_token_price",
     "deposit_with_yield_prediction", "wallet_analytics"}

\* the module global as the running process holds it: every request reads
\* the tool definitions through it
VARIABLE catalog

Catalog == DOMAIN catalog

(***************************************************************************)
(* Requests explored: AgentRequest (lines 175-178) with its list of        *)
(* ToolConnection (lines 171-173).                                         *)
(***************************************************************************)
ToolConnection(tool, next_tool) == [tool |-> tool, next_tool |-> next_tool]

EdgeLists ==
    { <<>>,
      <<ToolConnection("airdrop", "deposit_yield")>>,
      <<ToolConnection("airdrop", ""), ToolConnection("get_balance", None)>>,
      <<ToolConnection("airdrop", "deposit_yield"),
        ToolConnection("airdrop", "get_balance")>>,
      <<ToolConnection("airdrop", "deposit_with_yield_prediction")>>,
      <<ToolConnection("stt_balance_fetch", None)>> }

PrivateKeys == {None, "sk"}

(***************************************************************************)
(* chat_with_agent, lines 422-431: the unique tools and the successor map  *)
(* of an edge list.  A later edge of the same source overwrites an earlier *)
(* one (dict assignment).                                                  *)
(***************************************************************************)
\* variant: the successors are not collected
UniqueTools_sources_only(edges) ==
    {edges[i].tool : i \in DOMAIN edges}

UniqueTools(edges) ==
    {edges[i].tool : i \in DOMAIN edges}
    \cup {edges[i].next_tool : i \in {j \in DOMAIN edges : ~Falsy(edges[j].next_tool)}}

\* variant: an edge without successor counts too
FlowIndexes_any_edge(edges, tool) ==
    {i \in DOMAIN edges : edges[i].tool = tool}

FlowIndexes(edges, tool) ==
    {i \in DOMAIN edges : edges[i].tool = tool /\ ~Falsy(edges[i].next_tool)}

\* variant: the first edge of a source is kept
ToolFlow_first_wins(edges) ==
    [t \in {edges[i].tool : i \in {j \in DOMAIN edges : ~Falsy(edges[j].next_tool)}} |->
        edges[CHOOSE i \in FlowIndexes(edges, t) :
                 \A j \in FlowIndexes(edges, t) : j >= i].next_tool]

ToolFlow(edges) ==
    [t \in {edges[i].tool : i \in {j \in DOMAIN edges : ~Falsy(edges[j].next_tool)}} |->
        edges[CHOOSE i \in FlowIndexes(edges, t) :
                 \A j \in FlowIndexes(edges, t) : j <= i].next_tool]

\* lines 433-436: the validation loop finds a tool that is not in the catalog
UnknownDeclared(available) == available \ Catalog

(***************************************************************************)
(* build_system_prompt (lines 186-247): the text is kept as its parts: the *)
(* tools listed, the flow lines and which instruction block is used.       *)
(* has_sequential stands for the blocks of lines 212-226 (TOOL EXECUTION   *)
(* FLOW, SEQUENTIAL EXECUTION INSTRUCTIONS), flow_lines for the lines      *)
(* "After <tool> completes, YOU MUST IMMEDIATELY call <next_tool>", and    *)
(* chain_rule for the rule of line 244, which every prompt ends with.      *)
(***************************************************************************)
build_system_prompt(tool_connections) ==
    [kind |-> "prompt",
     tools |-> UniqueTools(tool_connections) \cap Catalog,
     has_sequential |-> \E i \in DOMAIN tool_connections :
                            ~Falsy(tool_connections[i].next_tool),
     flow_lines |-> ToolFlow(tool_connections),
     chain_rule |-> TRUE,
     context_key |-> None]

\* lines 321-322: the private key is appended to the prompt text
WithPrivateKeyContext(system_prompt, private_key) ==
    IF ~Falsy(private_key)
    THEN [system_prompt EXCEPT !.context_key = private_key]
    ELSE system_prompt

\* lines 292-308: only catalog tools are offered to the provider; with none
\* the call is made with tools=None (lines 344-345) and the assistant message
\* cannot hold tool calls
get_openai_tools(tool_names) == tool_names \cap Catalog

(***************************************************************************)
(* The provider's tool-call requests.  function.arguments is a JSON text;  *)
(* json_loads is json.loads on the texts explored (line 370): a dict, kept *)
(* as a function from its keys, or a JSONDecodeError.                      *)
(***************************************************************************)
\* the dict {}
EmptyDict == [k \in {} |-> None]

ArgsEmpty == "{}"
ArgsWithKey == "{\"privateKey\": \"mk\"}"
ArgsAddress == "{\"address\": \"0xA\", \"tag\": \"t\"}"
ArgsMalformed == "{\"recipients\": ["

json_loads(text) ==
    CASE text = ArgsEmpty -> [ok |-> TRUE, value |-> EmptyDict]
      [] text = ArgsWithKey -> [ok |-> TRUE, value |-> [privateKey |-> "mk"]]
      [] text = ArgsAddress -> [ok |-> TRUE, value |-> [address |-> "0xA", tag |-> "t"]]
      [] OTHER -> [ok |-> FALSE, value |-> EmptyDict]

ModelCall(name, arguments) == [name |-> name, arguments |-> arguments]

\* the (name, arguments) pairs a provider turn may request
ModelCalls ==
    { ModelCall("airdrop", ArgsEmpty),
      ModelCall("deposit_yield", ArgsWithKey),
      ModelCall("get_balance", ArgsAddress),
      ModelCall("airdrop", ArgsMalformed),
      ModelCall("deposit_with_yield_prediction", ArgsEmpty) }

\* the batches of n requests, with correlation ids first+1 .. first+n
Batches(first, n) ==
    { [i \in 1..n |-> [id |-> first + i, name |-> calls[i].name,
                       arguments |-> calls[i].arguments]] :
        calls \in [1..n -> ModelCalls] }

(***************************************************************************)
(* Outcomes of one HTTP request to a tool endpoint.  All but "ok" raise a  *)
(* requests.exceptions.RequestException (Timeout, ConnectionError, and     *)
(* HTTPError from raise_for_status on a non-2xx status).                   *)
(***************************************************************************)
HttpOutcomes == {"ok", "timeout", "connection_refused", "http_error"}

\* str(e) of a RequestException (line 289): a non-empty description
ErrorText(outcome) == "request failed"

NoException == [type |-> "none", site |-> "none", status_code |-> 0]

Raised(type, site) == [type |-> type, site |-> site, status_code |-> 0]

\* line 436: HTTPException(status_code=400, ...)
HTTPException(status_code, site) ==
    [type |-> "HTTPException", site |-> site, status_code |-> status_code]

(***************************************************************************)
(* execute_tool (lines 249-290) on one endpoint outcome: the exception     *)
(* that leaves it (if any), the HTTP requests it sends, the record it      *)
(* returns.                                                                *)
(***************************************************************************)
AddressSubstituted(tool_def, parameters) ==
    tool_def.placeholder /\ "address" \in DOMAIN parameters

\* lines 259-275: the request sent for a catalog tool
HttpRequest(tool_name, parameters) ==
    LET tool_def == catalog[tool_name]
        subst == AddressSubstituted(tool_def, parameters)
        outgoing == IF subst /\ tool_def.method = "GET" THEN EmptyDict ELSE parameters
    IN  [tool |-> tool_name,
         method |-> tool_def.method,
         endpoint |-> tool_def.endpoint,
         address |-> IF subst THEN parameters.address ELSE None,
         parameters |-> outgoing,
         has_body |-> tool_def.method = "POST",
         json |-> IF tool_def.method = "POST" THEN outgoing ELSE EmptyDict]

\* variant: the failure record names the endpoint instead of the tool
execute_tool_mislabels_failure(tool_name, parameters, outcome) ==
    IF tool_name \notin Catalog
    THEN [raised |-> Raised("ValueError", "execute_tool"),
          sent |-> <<>>,
          result |-> [success |-> FALSE, tool |-> tool_name, error |-> ""]]
    ELSE [raised |-> NoException,
          sent |-> <<HttpRequest(tool_name, parameters)>>,
          result |-> IF outcome = "ok"
                     THEN [success |-> TRUE, tool |-> tool_name,
                           result |-> "json body"]
                     ELSE [success |-> FALSE,
                           tool |-> catalog[tool_name].endpoint,
                           error |-> ErrorText(outcome)]]

\* variant: the except clause catches HTTPError only, a timeout escapes
execute_tool_timeout_escapes(tool_name, parameters, outcome) ==
    IF tool_name \notin Catalog
    THEN [raised |-> Raised("ValueError", "execute_tool"),
          sent |-> <<>>,
          result |-> [success |-> FALSE, tool |-> tool_name, error |-> ""]]
    ELSE [raised |-> IF outcome \in {"timeout", "connection_refused"}
                     THEN Raised("RequestException", "execute_tool")
                     ELSE NoException,
          sent |-> <<HttpRequest(tool_name, parameters)>>,
          result |-> IF outcome = "ok"
                     THEN [success |-> TRUE, tool |-> tool_name,
                           result |-> "json body"]
                     ELSE [success |-> FALSE, tool |-> tool_name,
                           error |-> ErrorText(outcome)]]

\* variant: a failed request is sent a second time
execute_tool_retries(tool_name, parameters, outcome) ==
    IF tool_name \notin Catalog
    THEN [raised |-> Raised("ValueError", "execute_tool"),
          sent |-> <<>>,
          result |-> [success |-> FALSE, tool |-> tool_name, error |-> ""]]
    ELSE [raised |-> NoException,
          sent |-> IF outcome = "ok"
                   THEN <<HttpRequest(tool_name, parameters)>>
                   ELSE <<HttpRequest(tool_name, parameters),
                          HttpRequest(tool_name, parameters)>>,
          result |-> IF outcome = "ok"
                     THEN [success |-> TRUE, tool |-> tool_name,
                           result |-> "json body"]
                     ELSE [success |-> FALSE, tool |-> tool_name,
                           error |-> ErrorText(outcome)]]

execute_tool(tool_name, parameters, outcome) ==
    IF tool_name \notin Catalog
    THEN [raised |-> Raised("ValueError", "execute_tool"),
          sent |-> <<>>,
          result |-> [success |-> FALSE, tool |-> tool_name, error |-> ""]]
    ELSE [raised |-> NoException,
          sent |-> <<HttpRequest(tool_name, parameters)>>,
          result |-> IF outcome = "ok"
                     THEN [success |-> TRUE, tool |-> tool_name,
                           result |-> "json body"]
                     ELSE [success |-> FALSE, tool |-> tool_name,
                           error |-> ErrorText(outcome)]]

\* variant: the substituted endpoint is stored back into the tool definition
CatalogAfterExecuteTool_stores_url(tool_name, parameters) ==
    IF AddressSubstituted(catalog[tool_name], parameters)
    THEN [catalog EXCEPT ![tool_name].placeholder = FALSE]
    ELSE catalog

\* lines 255-265: tool_def, url and parameters are locals of execute_tool;
\* url.replace builds a new string and parameters = {} rebinds the local, so
\* the module global is what it was
CatalogAfterExecuteTool(tool_name, parameters) == catalog

(***************************************************************************)
(* Lines 372-375: the caller's private key is put into the arguments of a  *)
(* tool whose schema has a privateKey property, unless the provider gave   *)
(* one.  The catalog lookup is only evaluated when a private key was       *)
(* supplied, and raises KeyError for a name outside the catalog.           *)
(***************************************************************************)
LookupRaises(private_key, function_name) ==
    ~Falsy(private_key) /\ function_name \notin Catalog

\* variant: a privateKey given by the provider is overwritten
InjectPrivateKey_overwrites(private_key, function_name, function_args) ==
    IF /\ ~Falsy(private_key)
       /\ "privateKey" \in catalog[function_name].properties
    THEN [k \in DOMAIN function_args \cup {"privateKey"} |->
             IF k = "privateKey" THEN private_key ELSE function_args[k]]
    ELSE function_args

InjectPrivateKey(private_key, function_name, function_args) ==
    IF /\ ~Falsy(private_key)
       /\ "privateKey" \in catalog[function_name].properties
       /\ "privateKey" \notin DOMAIN function_args
    THEN [k \in DOMAIN function_args \cup {"privateKey"} |->
             IF k = "privateKey" THEN private_key ELSE function_args[k]]
    ELSE function_args

(***************************************************************************)
(* Messages of the conversation history.                                   *)
(***************************************************************************)
\* variant: the correlation id is left out
Message_without_id(role, content, tool_calls, tool_call_id) ==
    [role |-> role, content |-> content, tool_calls |-> tool_calls,
     tool_call_id |-> 0]

Message(role, content, tool_calls, tool_call_id) ==
    [role |-> role, content |-> content, tool_calls |-> tool_calls,
     tool_call_id |-> tool_call_id]

\* json.dumps(result), line 390
json_dumps(result) == [kind |-> "json", value |-> result]

\* lines 395-402: the messages appended after a batch
\* variant: no directive is appended
DirectiveMessages_never(last_tool_executed, flow) == <<>>

\* variant: a directive is appended after every batch
DirectiveMessages_unconditional(last_tool_executed, flow) ==
    << Message("system",
               [kind |-> "directive",
                next_tool |-> IF last_tool_executed \in DOMAIN flow
                              THEN flow[last_tool_executed]
                              ELSE last_tool_executed],
               <<>>, 0) >>

DirectiveMessages(last_tool_executed, flow) ==
    IF last_tool_executed \in DOMAIN flow
    THEN << Message("system",
                    [kind |-> "directive", next_tool |-> flow[last_tool_executed]],
                    <<>>, 0) >>
    ELSE <<>>

\* variant: one turn too many
LoopGuard_inclusive(iter, cap) == iter <= cap

\* line 337
LoopGuard(iter, cap) == iter < cap

MaxIterationsNotice ==
    "Maximum iterations reached. Please try again with a simpler request."

\* lines 354-359 and 405-410: the value process_agent_conversation returns
ConversationResult(agent_response, tool_calls, results, history) ==
    [kind |-> "result", agent_response |-> agent_response,
     tool_calls |-> tool_calls, results |-> results,
     conversation_history |-> history]

\* lines 450-454
AgentResponse(res) ==
    [kind |-> "ok", agent_response |-> res.agent_response,
     tool_calls |-> res.tool_calls, results |-> res.results]

\* lines 456-457: whatever is raised inside the try block, the HTTPException
\* of line 436 included, is replaced by a 500
ErrorResponse(e) ==
    [kind |-> "error", status_code |-> 500, detail |-> e.type]

NoResponse == [kind |-> "none"]

(***************************************************************************)
(* State of one request.                                                   *)
(***************************************************************************)
VARIABLES
    request,          \* the AgentRequest: tools (edge list), private_key
    max_iterations,   \* the cap of process_agent_conversation
    pc,               \* where the request is in chat_with_agent
    available_tools,  \* line 431
    tool_flow,        \* lines 423-429
    messages,         \* the conversation history
    all_tool_calls,   \* the tool-call log
    all_tool_results, \* the tool-result log
    iteration,        \* the loop counter
    batch,            \* assistant_message.tool_calls of the current turn
    tc,               \* position in batch of the tool call being processed
    provider_calls,   \* number of client.chat.completions.create calls made
    http_requests,    \* the HTTP requests sent to tool endpoints, in order
    http_outcome,     \* outcome of the latest HTTP request
    exc,              \* the exception raised inside the try block, if any
    result,           \* what process_agent_conversation returned
    response,         \* what the caller of chat_with_agent receives
    peer              \* the state of the other request in flight, if any

vars == <<request, max_iterations, pc, available_tools, tool_flow, messages,
          all_tool_calls, all_tool_results, iteration, batch, tc,
          provider_calls, http_requests, http_outcome, exc, result, response,
          peer, catalog>>

Requests == [tools : EdgeLists, private_key : PrivateKeys]

\* nothing of the request has been processed yet
Fresh ==
    /\ pc = "start"
    /\ available_tools = {}
    /\ tool_flow = EmptyDict
    /\ messages = <<>>
    /\ all_tool_calls = <<>>
    /\ all_tool_results = <<>>
    /\ iteration = 0
    /\ batch = <<>>
    /\ tc = 0
    /\ provider_calls = 0
    /\ http_requests = <<>>
    /\ http_outcome = None
    /\ exc = NoException
    /\ result = NoResponse
    /\ response = NoResponse

\* no other request is in flight
NoPeer == [pc |-> "none"]

Init ==
    /\ request \in Requests
    /\ max_iterations \in 1..MaxCap
    /\ Fresh
    /\ peer = NoPeer
    /\ catalog = TOOL_DEFINITIONS

\* variant: the exception is swallowed and the loop goes on
Abort_loop_goes_on(e) ==
    /\ exc' = e
    /\ response' = response
    /\ pc' = "loop"

\* an exception raised inside the try block of chat_with_agent reaches the
\* handler of lines 456-457
Abort(e) ==
    /\ exc' = e
    /\ response' = ErrorResponse(e)
    /\ pc' = "done"

\* process_agent_conversation returns and chat_with_agent wraps the value
Return(agent_response) ==
    LET res == ConversationResult(agent_response, all_tool_calls,
                                  all_tool_results, messages)
    IN  /\ result' = res
        /\ response' = AgentResponse(res)
        /\ pc' = "done"

(***************************************************************************)
(* chat_with_agent, lines 420-448, and the set-up of                       *)
(* process_agent_conversation, lines 320-334.                              *)
(***************************************************************************)
RejectRequest ==
    /\ pc = "start"
    /\ UnknownDeclared(UniqueTools(request.tools)) # {}
    /\ available_tools' = UniqueTools(request.tools)
    /\ tool_flow' = ToolFlow(request.tools)
    /\ Abort(HTTPException(400, "validate"))
    /\ UNCHANGED <<peer, catalog,
                   request, max_iterations, messages, all_tool_calls,
                   all_tool_results, iteration, batch, tc, provider_calls,
                   http_requests, http_outcome, result>>

StartConversation ==
    /\ pc = "start"
    /\ UnknownDeclared(UniqueTools(request.tools)) = {}
    /\ available_tools' = UniqueTools(request.tools)
    /\ tool_flow' = ToolFlow(request.tools)
    /\ messages' =
         << Message("system",
                    WithPrivateKeyContext(build_system_prompt(request.tools),
                                          request.private_key),
                    <<>>, 0),
            Message("user", [kind |-> "user_message"], <<>>, 0) >>
    /\ pc' = "loop"
    /\ UNCHANGED <<peer, catalog,
                   request, max_iterations, all_tool_calls, all_tool_results,
                   iteration, batch, tc, provider_calls, http_requests,
                   http_outcome, exc, result, response>>

(***************************************************************************)
(* One provider turn, lines 337-366.                                       *)
(***************************************************************************)
\* the provider call raises (network, quota, ...)
ProviderFails ==
    /\ pc = "loop"
    /\ LoopGuard(iteration, max_iterations)
    /\ iteration' = iteration + 1
    /\ provider_calls' = provider_calls + 1
    /\ Abort(Raised("APIError", "provider"))
    /\ UNCHANGED <<peer, catalog,
                   request, max_iterations, available_tools, tool_flow,
                   messages, all_tool_calls, all_tool_results, batch, tc,
                   http_requests, http_outcome, result>>

\* the assistant message has no tool calls: lines 352-359
ProviderAnswers ==
    /\ pc = "loop"
    /\ LoopGuard(iteration, max_iterations)
    /\ iteration' = iteration + 1
    /\ provider_calls' = provider_calls + 1
    /\ Return("model text")
    /\ UNCHANGED <<peer, catalog,
                   request, max_iterations, available_tools, tool_flow,
                   messages, all_tool_calls, all_tool_results, batch, tc,
                   http_requests, http_outcome, exc>>

\* the assistant message requests tool calls: lines 361-366
ProviderRequestsTools ==
    /\ pc = "loop"
    /\ LoopGuard(iteration, max_iterations)
    /\ get_openai_tools(available_tools) # {}
    /\ \E n \in 1..MaxBatch :
         /\ Len(all_tool_calls) + n <= MaxCalls
         /\ \E tool_calls \in Batches(Len(all_tool_calls), n) :
              /\ batch' = tool_calls
              /\ messages' = Append(messages,
                                    Message("assistant", [kind |-> "none"],
                                            tool_calls, 0))
    /\ iteration' = iteration + 1
    /\ provider_calls' = provider_calls + 1
    /\ tc' = 1
    /\ pc' = "tool_call"
    /\ UNCHANGED <<peer, catalog,
                   request, max_iterations, available_tools, tool_flow,
                   all_tool_calls, all_tool_results, http_requests,
                   http_outcome, exc, result, response>>

\* the loop condition fails: lines 404-410
ReturnMaxIterations ==
    /\ pc = "loop"
    /\ ~LoopGuard(iteration, max_iterations)
    /\ Return(MaxIterationsNotice)
    /\ UNCHANGED <<peer, catalog,
                   request, max_iterations, available_tools, tool_flow,
                   messages, all_tool_calls, all_tool_results, iteration,
                   batch, tc, provider_calls, http_requests, http_outcome,
                   exc>>

(***************************************************************************)
(* One tool call of the batch, lines 368-391.                              *)
(***************************************************************************)
\* variant: the batch is processed from its end
tool_call_reversed == batch[Len(batch) + 1 - tc]

tool_call == batch[tc]

\* line 370: json.loads raises JSONDecodeError
DecodeFails ==
    /\ pc = "tool_call"
    /\ ~json_loads(tool_call.arguments).ok
    /\ Abort(Raised("JSONDecodeError", "json.loads"))
    /\ UNCHANGED <<peer, catalog,
                   request, max_iterations, available_tools, tool_flow,
                   messages, all_tool_calls, all_tool_results, iteration,
                   batch, tc, provider_calls, http_requests, http_outcome,
                   result>>

\* line 373: TOOL_DEFINITIONS[function_name] raises KeyError
LookupFails ==
    /\ pc = "tool_call"
    /\ json_loads(tool_call.arguments).ok
    /\ LookupRaises(request.private_key, tool_call.name)
    /\ Abort(Raised("KeyError", "TOOL_DEFINITIONS[function_name]"))
    /\ UNCHANGED <<peer, catalog,
                   request, max_iterations, available_tools, tool_flow,
                   messages, all_tool_calls, all_tool_results, iteration,
                   batch, tc, provider_calls, http_requests, http_outcome,
                   result>>

\* lines 369-380: decode, inject the private key, append the call record
RecordToolCall ==
    /\ pc = "tool_call"
    /\ json_loads(tool_call.arguments).ok
    /\ ~LookupRaises(request.private_key, tool_call.name)
    /\ LET function_args ==
               IF Falsy(request.private_key)
               THEN json_loads(tool_call.arguments).value
               ELSE InjectPrivateKey(request.private_key, tool_call.name,
                                     json_loads(tool_call.arguments).value)
       IN  all_tool_calls' = Append(all_tool_calls,
                                    [tool |-> tool_call.name,
                                     parameters |-> function_args])
    /\ pc' = "execute"
    /\ UNCHANGED <<peer, catalog,
                   request, max_iterations, available_tools, tool_flow,
                   messages, all_tool_results, iteration, batch, tc,
                   provider_calls, http_requests, http_outcome, exc, result,
                   response>>

\* line 383: an exception leaves execute_tool
ExecuteToolRaises ==
    /\ pc = "execute"
    /\ \E outcome \in HttpOutcomes :
         LET call == Last(all_tool_calls)
             run == execute_tool(call.tool, call.parameters, outcome)
         IN  /\ run.raised # NoException
             /\ http_requests' = http_requests \o run.sent
             /\ http_outcome' = IF run.sent = <<>> THEN http_outcome ELSE outcome
             /\ Abort(run.raised)
    /\ UNCHANGED <<peer, catalog,
                   request, max_iterations, available_tools, tool_flow,
                   messages, all_tool_calls, all_tool_results, iteration,
                   batch, tc, provider_calls, result>>

\* lines 383-391: execute_tool returns; the result is logged and fed back
ExecuteToolReturns ==
    /\ pc = "execute"
    /\ \E outcome \in HttpOutcomes :
         LET call == Last(all_tool_calls)
             run == execute_tool(call.tool, call.parameters, outcome)
         IN  /\ run.raised = NoException
             /\ http_requests' = http_requests \o run.sent
             /\ http_outcome' = IF run.sent = <<>> THEN http_outcome ELSE outcome
             /\ catalog' = CatalogAfterExecuteTool(call.tool, call.parameters)
             /\ all_tool_results' = Append(all_tool_results, run.result)
             /\ messages' = Append(messages,
                                   Message("tool", json_dumps(run.result),
                                           <<>>, tool_call.id))
    /\ tc' = tc + 1
    /\ pc' = IF tc < Len(batch) THEN "tool_call" ELSE "batch_done"
    /\ UNCHANGED <<peer,
                   request, max_iterations, available_tools, tool_flow,
                   all_tool_calls, iteration, batch, provider_calls, exc,
                   result, response>>

\* lines 393-402: the continuation directive after the batch
AfterBatch ==
    /\ pc = "batch_done"
    /\ messages' = messages \o DirectiveMessages(Last(all_tool_calls).tool,
                                                 tool_flow)
    /\ pc' = "loop"
    /\ UNCHANGED <<peer, catalog,
                   request, max_iterations, available_tools, tool_flow,
                   all_tool_calls, all_tool_results, iteration, batch, tc,
                   provider_calls, http_requests, http_outcome, exc, result,
                   response>>

Next ==
    \/ RejectRequest
    \/ StartConversation
    \/ ProviderFails
    \/ ProviderAnswers
    \/ ProviderRequestsTools
    \/ ReturnMaxIterations
    \/ DecodeFails
    \/ LookupFails
    \/ RecordToolCall
    \/ ExecuteToolRaises
    \/ ExecuteToolReturns
    \/ AfterBatch

Spec == Init /\ [][Next]_vars

(***************************************************************************)
(* The flow compilation alone (lines 420-436 and 186-200), on every edge   *)
(* list of up to MaxEdges edges over a few identifiers: a catalog tool     *)
(* with privateKey, one without, an identifier outside the catalog; the    *)
(* successor absent (None), empty, or a catalog tool.                      *)
(***************************************************************************)
MaxEdges == 2

GeneratedEdges ==
    [tool : {"airdrop", "get_balance", "stt_balance_fetch"},
     next_tool : {None, "", "airdrop", "deposit_yield"}]

GeneratedEdgeLists == UNION {[1..n -> GeneratedEdges] : n \in 0..MaxEdges}

CompileInit ==
    /\ request \in [tools : GeneratedEdgeLists, private_key : {None}]
    /\ max_iterations = 1
    /\ Fresh
    /\ peer = NoPeer
    /\ catalog = TOOL_DEFINITIONS

CompileNext == RejectRequest \/ StartConversation

CompileSpec == CompileInit /\ [][CompileNext]_vars

(***************************************************************************)
(* Two requests in flight.  Everything chat_with_agent and                 *)
(* process_agent_conversation work on is a parameter or a local of the     *)
(* call (lines 310-335, 414-448), so each request has its own copy of the  *)
(* variables above; the module global is the one thing they share.  The    *)
(* request whose step comes next is held in the variables, the other one   *)
(* in peer; Switch passes the turn, so that the steps of the two requests  *)
(* interleave in every order.                                              *)
(***************************************************************************)
Local ==
    [request |-> request, max_iterations |-> max_iterations, pc |-> pc,
     available_tools |-> available_tools, tool_flow |-> tool_flow,
     messages |-> messages, all_tool_calls |-> all_tool_calls,
     all_tool_results |-> all_tool_results, iteration |-> iteration,
     batch |-> batch, tc |-> tc, provider_calls |-> provider_calls,
     http_requests |-> http_requests, http_outcome |-> http_outcome,
     exc |-> exc, result |-> result, response |-> response]

\* the locals of a request that has arrived and not been processed yet
FreshLocal(req, cap) ==
    [request |-> req, max_iterations |-> cap, pc |-> "start",
     available_tools |-> {}, tool_flow |-> EmptyDict,
     messages |-> <<>>, all_tool_calls |-> <<>>,
     all_tool_results |-> <<>>, iteration |-> 0,
     batch |-> <<>>, tc |-> 0, provider_calls |-> 0,
     http_requests |-> <<>>, http_outcome |-> None,
     exc |-> NoException, result |-> NoResponse, response |-> NoResponse]

Switch ==
    /\ peer # NoPeer
    /\ peer' = Local
    /\ request' = peer.request
    /\ max_iterations' = peer.max_iterations
    /\ pc' = peer.pc
    /\ available_tools' = peer.available_tools
    /\ tool_flow' = peer.tool_flow
    /\ messages' = peer.messages
    /\ all_tool_calls' = peer.all_tool_calls
    /\ all_tool_results' = peer.all_tool_results
    /\ iteration' = peer.iteration
    /\ batch' = peer.batch
    /\ tc' = peer.tc
    /\ provider_calls' = peer.provider_calls
    /\ http_requests' = peer.http_requests
    /\ http_outcome' = peer.http_outcome
    /\ exc' = peer.exc
    /\ result' = peer.result
    /\ response' = peer.response
    /\ UNCHANGED catalog

\* a request with a secret, and beside it a request with another secret,
\* one without, or one that declares a tool outside the catalog
FirstRequests ==
    {[tools |-> <<ToolConnection("airdrop", "deposit_yield")>>,
      private_key |-> "sk"]}

SecondRequests ==
    [tools : {<<ToolConnection("get_balance", "airdrop")>>},
     private_key : {None, "sk2"}]
    \cup {[tools |-> <<ToolConnection("stt_balance_fetch", None)>>,
           private_key |-> None]}

ConcurrentInit ==
    /\ request \in FirstRequests
    /\ max_iterations = 1
    /\ Fresh
    /\ \E second \in SecondRequests : peer = FreshLocal(second, 1)
    /\ catalog = TOOL_DEFINITIONS

ConcurrentNext == Next \/ Switch

ConcurrentSpec == ConcurrentInit /\ [][ConcurrentNext]_vars

\* the request handler runs to completion: no step waits on another request
FairSpec == Spec /\ WF_vars(Next)

TypeOK ==
    /\ pc \in {"start", "loop", "tool_call", "execute", "batch_done", "done"}
    /\ iteration \in 0..max_iterations
    /\ provider_calls \in 0..MaxCap
    /\ Len(all_tool_calls) <= MaxCalls
    /\ response.kind \in {"none", "ok", "error"}

(***************************************************************************)
(* Vocabulary of the properties.                                           *)
(***************************************************************************)
\* the edge list names a tool, as source or successor, outside the catalog
DeclaresUnknown ==
    \E i \in DOMAIN request.tools :
        \/ request.tools[i].tool \notin Catalog
        \/ /\ ~Falsy(request.tools[i].next_tool)
           /\ request.tools[i].next_tool \notin Catalog

\* the successors the edge list declares for a tool
DeclaredSuccessors(tool) ==
    {request.tools[i].next_tool :
        i \in {j \in DOMAIN request.tools :
                  /\ request.tools[j].tool = tool
                  /\ ~Falsy(request.tools[j].next_tool)}}

\* the successor of the last edge that declares one for the tool
LastDeclaredSuccessor(tool) ==
    LET idx == {j \in DOMAIN request.tools :
                   /\ request.tools[j].tool = tool
                   /\ ~Falsy(request.tools[j].next_tool)}
    IN  request.tools[CHOOSE i \in idx : \A j \in idx : j <= i].next_tool

IsDirectiveNaming(m, next_tool) ==
    /\ m.role = "system"
    /\ m.content.kind = "directive"
    /\ m.content.next_tool = next_tool

IsDirective(m) == m.role = "system" /\ m.content.kind = "directive"

\* a batch has just been processed and the next loop test is due
BatchFinished == pc = "loop" /\ all_tool_calls # <<>>

\* the tool messages of the finished batch are the last messages of the
\* history but for `after` trailing messages, behind the assistant message
BatchResultsBefore(after) ==
    LET n == Len(batch)
        end == Len(messages) - after
    IN  /\ end - n >= 3
        /\ messages[end - n].role = "assistant"
        /\ messages[end - n].tool_calls = batch
        /\ \A k \in 1..n :
             /\ messages[end - n + k].role = "tool"
             /\ messages[end - n + k].tool_call_id = batch[k].id

FinalAnswerReturned ==
    pc = "done" /\ response.kind = "ok" /\ response.agent_response = "model text"

TransportFailures == HttpOutcomes \ {"ok"}

(***************************************************************************)
(* C1: whatever the provider requests and whatever the endpoints answer,   *)
(* process_agent_conversation makes at most max_iterations provider calls  *)
(* and then returns a value carrying every call and result record          *)
(* accumulated.  (A failing provider call is left aside: the statement is  *)
(* about the provider's requests and the endpoints' outcomes.)             *)
(***************************************************************************)
C1_CapThenReturnsLogs ==
    /\ provider_calls <= max_iterations
    /\ (pc = "done" /\ messages # <<>> /\ exc.site # "provider")
         => /\ result.kind = "result"
            /\ result.tool_calls = all_tool_calls
            /\ result.results = all_tool_results

(***************************************************************************)
(* C2: in every response returned by the driver the two logs have the same *)
(* length and result i carries the tool identifier of call i.              *)
(***************************************************************************)
C2_LogsPaired ==
    response.kind = "ok" =>
        /\ Len(response.tool_calls) = Len(response.results)
        /\ \A i \in DOMAIN response.tool_calls :
             response.results[i].tool = response.tool_calls[i].tool

C2_Witness ==
    /\ response.kind = "ok"
    /\ Len(response.results) >= 2
    /\ \E i \in DOMAIN response.results : ~response.results[i].success
    /\ \E i \in DOMAIN response.results : response.results[i].success

(***************************************************************************)
(* C3, as stated: for every edge A -> B the edge list declares, a batch    *)
(* whose last executed tool is A is followed, behind its tool-result       *)
(* messages and before the next provider call, by a directive naming B;    *)
(* with no declared successor no directive is appended.                    *)
(***************************************************************************)
C3_DirectiveForEveryDeclaredEdge ==
    BatchFinished =>
        LET last == Last(all_tool_calls).tool
        IN  /\ \A b \in DeclaredSuccessors(last) :
                 /\ IsDirectiveNaming(Last(messages), b)
                 /\ BatchResultsBefore(1)
            /\ DeclaredSuccessors(last) = {} =>
                 /\ Last(messages).role = "tool"
                 /\ BatchResultsBefore(0)

(***************************************************************************)
(* C3, amended: the directive names the successor of the LAST edge that    *)
(* declares one for A (a later edge of the same source replaces an earlier *)
(* one); it is appended behind the batch's tool-result messages and before *)
(* the next provider call; with no declared successor none is appended.    *)
(***************************************************************************)
C3_DirectiveForLastDeclaredEdge ==
    BatchFinished =>
        LET last == Last(all_tool_calls).tool
        IN  /\ DeclaredSuccessors(last) # {} =>
                 /\ IsDirectiveNaming(Last(messages), LastDeclaredSuccessor(last))
                 /\ BatchResultsBefore(1)
            /\ DeclaredSuccessors(last) = {} =>
                 /\ Last(messages).role = "tool"
                 /\ BatchResultsBefore(0)

C3_Witness ==
    /\ BatchFinished
    /\ Cardinality(DeclaredSuccessors(Last(all_tool_calls).tool)) = 2
    /\ IsDirectiveNaming(Last(messages), "get_balance")
    /\ Len(batch) = 2

(***************************************************************************)
(* C4, as stated: in every run that ends with the model's text as final    *)
(* answer, each execution of a tool with a declared successor is followed  *)
(* later in the tool-call log by an execution of that successor.           *)
(***************************************************************************)
C4_SuccessorExecutedBeforeAnswer ==
    FinalAnswerReturned =>
        \A i \in DOMAIN all_tool_calls :
            DeclaredSuccessors(all_tool_calls[i].tool) # {} =>
                \E j \in DOMAIN all_tool_calls :
                    /\ j > i
                    /\ all_tool_calls[j].tool =
                         LastDeclaredSuccessor(all_tool_calls[i].tool)

(***************************************************************************)
(* C4, amended: the driver only asks for the successor.  In every run that *)
(* ends with the model's text as final answer, each batch whose last       *)
(* executed tool has a declared successor is followed at once, in the      *)
(* history the driver returns, by a directive naming that successor (the   *)
(* last declared one), and no other directive is in the history; the       *)
(* answer is returned whether or not the successor was executed.           *)
(***************************************************************************)
C4_DirectiveBeforeAnswer ==
    FinalAnswerReturned =>
        LET h == result.conversation_history
            EndsBatch(i) == h[i].role = "tool"
                            /\ (i = Len(h) \/ h[i + 1].role # "tool")
            ToolOf(i) == h[i].content.value.tool
        IN  /\ \A i \in DOMAIN h :
                 (EndsBatch(i) /\ DeclaredSuccessors(ToolOf(i)) # {}) =>
                     /\ i < Len(h)
                     /\ IsDirectiveNaming(h[i + 1],
                                          LastDeclaredSuccessor(ToolOf(i)))
            /\ \A i \in DOMAIN h :
                 IsDirective(h[i]) =>
                     /\ i > 1
                     /\ EndsBatch(i - 1)
                     /\ DeclaredSuccessors(ToolOf(i - 1)) # {}

C4_Witness ==
    /\ FinalAnswerReturned
    /\ Len(all_tool_calls) = 1
    /\ all_tool_calls[1].tool = "airdrop"
    /\ IsDirectiveNaming(Last(result.conversation_history), "deposit_yield")

(***************************************************************************)
(* C5: a request whose edge list names a tool outside the catalog is       *)
(* rejected, and no provider call and no HTTP request is made for it.      *)
(***************************************************************************)
C5_UnknownDeclaredRejected ==
    DeclaresUnknown =>
        /\ provider_calls = 0
        /\ http_requests = <<>>
        /\ messages = <<>>
        /\ pc \in {"start", "done"}
        /\ pc = "done" => response.kind = "error"

C5_Witness ==
    /\ pc = "done"
    /\ response.kind = "error"
    /\ \E i \in DOMAIN request.tools :
         /\ request.tools[i].tool \in Catalog
         /\ ~Falsy(request.tools[i].next_tool)
         /\ request.tools[i].next_tool \notin Catalog

(***************************************************************************)
(* C6: when a declared tool identifier is not in the catalog, the error    *)
(* the caller of chat_with_agent gets is a client error (4xx).             *)
(***************************************************************************)
C6_UnknownDeclaredIsClientError ==
    (pc = "done" /\ DeclaresUnknown) =>
        /\ response.kind = "error"
        /\ response.status_code \in 400..499

(***************************************************************************)
(* C7: a tool endpoint call that fails at transport level (timeout,        *)
(* connection refused, non-2xx) yields a record with success = FALSE and   *)
(* an error description; no exception leaves execute_tool; the record is   *)
(* appended to the result log and to the history as the tool message of    *)
(* the call; the driver goes on with the batch and, after it, to the next  *)
(* loop test instead of aborting.                                          *)
(***************************************************************************)
C7_TransportFailureContinues ==
    [][ /\ ( /\ pc = "execute"
             /\ Len(http_requests') = Len(http_requests) + 1
             /\ http_outcome' \in TransportFailures )
          => /\ exc' = NoException
             /\ response' = NoResponse
             /\ Len(all_tool_results') = Len(all_tool_results) + 1
             /\ \A i \in DOMAIN all_tool_results :
                  all_tool_results'[i] = all_tool_results[i]
             /\ Last(all_tool_results').success = FALSE
             /\ Last(all_tool_results').tool = Last(all_tool_calls).tool
             /\ Last(all_tool_results').error # ""
             /\ Len(messages') = Len(messages) + 1
             /\ Last(messages') = Message("tool",
                                          json_dumps(Last(all_tool_results')),
                                          <<>>, batch[tc].id)
             /\ pc' = IF tc < Len(batch) THEN "tool_call" ELSE "batch_done"
        /\ pc = "batch_done" => (pc' = "loop" /\ response' = NoResponse)
      ]_vars

C7_Witness ==
    /\ pc = "tool_call"
    /\ provider_calls = 2
    /\ Len(all_tool_results) = 1
    /\ ~all_tool_results[1].success
    /\ all_tool_results[1].tool = "get_balance"
    /\ messages[4].role = "tool"

(***************************************************************************)
(* C8: tool-call arguments that are not valid JSON are a failure of that   *)
(* one call; the conversation is not aborted.                              *)
(***************************************************************************)
C8_MalformedArgumentsPerCall ==
    ~(pc = "done" /\ response.kind = "error" /\ exc.type = "JSONDecodeError")

(***************************************************************************)
(* C9: a requested tool that is not in the catalog is a failure of that    *)
(* one call: no HTTP request is sent for it and the conversation is not    *)
(* aborted by it, with or without a caller secret.                         *)
(***************************************************************************)
C9_UnknownToolPerCall ==
    /\ \A k \in DOMAIN http_requests : http_requests[k].tool \in Catalog
    /\ ~( /\ pc = "done"
          /\ response.kind = "error"
          /\ exc.site \in {"execute_tool", "TOOL_DEFINITIONS[function_name]"} )

(***************************************************************************)
(* C10: on every way a request ends after at least one tool was executed,  *)
(* the caller receives the call and result records accumulated so far.     *)
(***************************************************************************)
C10_LogsNeverDiscarded ==
    (pc = "done" /\ all_tool_results # <<>>) =>
        /\ response.kind = "ok"
        /\ response.tool_calls = all_tool_calls
        /\ response.results = all_tool_results

(***************************************************************************)
(* C11: a failing provider call aborts the loop at once: the failing call  *)
(* invokes no tool, the request ends with a request-level error, and after *)
(* it no tool is invoked and no provider call is made.                     *)
(***************************************************************************)
C11_ProviderFailureAborts ==
    /\ [](exc.site = "provider" =>
            /\ pc = "done"
            /\ response.kind = "error"
            /\ response.status_code = 500
            /\ result = NoResponse)
    /\ [][ /\ (exc.site # "provider" /\ exc'.site = "provider") =>
                /\ provider_calls' = provider_calls + 1
                /\ http_requests' = http_requests
                /\ all_tool_calls' = all_tool_calls
                /\ all_tool_results' = all_tool_results
                /\ messages' = messages
           /\ exc.site = "provider" =>
                /\ provider_calls' = provider_calls
                /\ http_requests' = http_requests
                /\ all_tool_calls' = all_tool_calls
       ]_vars

C11_Witness ==
    /\ pc = "done"
    /\ exc.site = "provider"
    /\ provider_calls = 2
    /\ Len(all_tool_results) = 2
    /\ response.kind = "error"

(***************************************************************************)
(* C12: the caller's secret never appears in the tool-call log of the      *)
(* response: no record of AgentResponse.tool_calls has a parameter whose   *)
(* value is the secret the driver injected.                                *)
(***************************************************************************)
C12_SecretNotInReturnedLog ==
    (response.kind = "ok" /\ ~Falsy(request.private_key)) =>
        \A i \in DOMAIN response.tool_calls :
            \A k \in DOMAIN response.tool_calls[i].parameters :
                response.tool_calls[i].parameters[k] # request.private_key

(***************************************************************************)
(* C13: when no edge of the list declares a successor, the compiled        *)
(* successor map is empty, the instruction text has no mandatory-          *)
(* continuation clause (neither the sequential blocks nor a flow line),    *)
(* and no directive is ever appended to the history.                       *)
(***************************************************************************)
NoSuccessorDeclared ==
    \A i \in DOMAIN request.tools : request.tools[i].next_tool \in {None, ""}

C14_ScenarioAcceptedAndForced ==
    request.tools = <<ToolConnection("airdrop", "deposit_with_yield_prediction")>>
    => /\ pc # "start" =>
            /\ DOMAIN tool_flow = {"airdrop"}
            /\ tool_flow["airdrop"] = "deposit_with_yield_prediction"
            /\ exc.site # "validate"
            /\ messages # <<>>
       /\ ( /\ pc = "done"
            /\ \E i \in DOMAIN all_tool_results :
                 /\ all_tool_results[i].tool = "airdrop"
                 /\ all_tool_results[i].success )
          => \E j \in DOMAIN messages :
                 IsDirectiveNaming(messages[j], "deposit_with_yield_prediction")

(***************************************************************************)
(* The tool-call requests the provider has emitted so far, in the order of *)
(* emission: those of the assistant messages of the history, turn after    *)
(* turn.                                                                   *)
(***************************************************************************)
RECURSIVE EmittedUpTo(_)
EmittedUpTo(n) ==
    IF n = 0
    THEN <<>>
    ELSE EmittedUpTo(n - 1) \o (IF messages[n].role = "assistant"
                                THEN messages[n].tool_calls
                                ELSE <<>>)

Emitted == EmittedUpTo(Len(messages))

(***************************************************************************)
(* C15: the tool-call log, the tool-result log and the HTTP requests sent  *)
(* follow the order in which the provider emitted the requests, turn after *)
(* turn; a call record is appended before its tool is invoked, and its     *)
(* result record before the next call record.                              *)
(***************************************************************************)
C15_LogsFollowEmissionOrder ==
    /\ []( /\ Len(all_tool_calls) <= Len(Emitted)
           /\ Len(all_tool_results) <= Len(all_tool_calls)
           /\ Len(all_tool_calls) <= Len(all_tool_results) + 1
           /\ Len(http_requests) <= Len(all_tool_calls)
           /\ \A i \in DOMAIN all_tool_calls :
                all_tool_calls[i].tool = Emitted[i].name
           /\ \A i \in DOMAIN all_tool_results :
                all_tool_results[i].tool = Emitted[i].name
           /\ \A i \in DOMAIN http_requests :
                http_requests[i].tool = Emitted[i].name )
    /\ [][ /\ Len(http_requests') > Len(http_requests) =>
                /\ Len(http_requests') = Len(all_tool_calls)
                /\ all_tool_calls' = all_tool_calls
                /\ Len(all_tool_results) = Len(all_tool_calls) - 1
           /\ Len(all_tool_calls') > Len(all_tool_calls) =>
                /\ Len(all_tool_results) = Len(all_tool_calls)
                /\ Len(http_requests) = Len(all_tool_calls)
                /\ http_requests' = http_requests
       ]_vars

C15_Witness ==
    /\ pc = "done"
    /\ response.kind = "ok"
    /\ provider_calls = 3
    /\ Len(http_requests) = 3
    /\ Len(messages[3].tool_calls) = 2
    /\ http_requests[1].tool = "get_balance"
    /\ http_requests[2].tool = "airdrop"
    /\ http_requests[3].tool = "deposit_yield"

(***************************************************************************)
(* C17: the secret is put into a call's parameters exactly when a secret   *)
(* was supplied, the tool's schema has a privateKey property and the       *)
(* provider's arguments hold no privateKey; then only that key is added.   *)
(* Otherwise the parameters are the provider's arguments: a privateKey of  *)
(* the provider is kept, and a tool without the property gets no secret.   *)
(***************************************************************************)
C17_SecretInjectedExactlyWhenNeeded ==
    \A i \in DOMAIN all_tool_calls :
        LET name == all_tool_calls[i].tool
            given == json_loads(Emitted[i].arguments).value
            stored == all_tool_calls[i].parameters
            needed == /\ request.private_key \notin {None, ""}
                      /\ name \in DOMAIN TOOL_DEFINITIONS
                      /\ "privateKey" \in TOOL_DEFINITIONS[name].properties
                      /\ "privateKey" \notin DOMAIN given
        IN  /\ needed =>
                 /\ DOMAIN stored = DOMAIN given \cup {"privateKey"}
                 /\ stored["privateKey"] = request.private_key
                 /\ \A k \in DOMAIN given : stored[k] = given[k]
            /\ ~needed => stored = given

C17_Witness ==
    /\ request.private_key = "sk"
    /\ Len(all_tool_calls) = 3
    /\ all_tool_calls[1] = [tool |-> "airdrop", parameters |-> [privateKey |-> "sk"]]
    /\ all_tool_calls[2] = [tool |-> "deposit_yield",
                            parameters |-> [privateKey |-> "mk"]]
    /\ all_tool_calls[3] = [tool |-> "get_balance",
                            parameters |-> [address |-> "0xA", tag |-> "t"]]

(***************************************************************************)
(* The provider turns that held tool-call requests: each left one          *)
(* assistant message in the history.                                       *)
(***************************************************************************)
TurnsWithToolCalls ==
    Cardinality({i \in DOMAIN messages : messages[i].role = "assistant"})

NoticeReturned ==
    /\ pc = "done"
    /\ response.kind = "ok"
    /\ response.agent_response = MaxIterationsNotice

\* the request was accepted and has ended
ConversationEnded == pc = "done" /\ messages # <<>>

C20_HistoryWellFormed ==
    /\ [](messages # <<>> =>
            /\ Len(messages) >= 2
            /\ messages[1].role = "system"
            /\ messages[1].content.kind = "prompt"
            /\ messages[2].role = "user")
    /\ [](pc = "loop" =>
            \A i \in DOMAIN messages :
                messages[i].role = "assistant" =>
                    \A k \in DOMAIN messages[i].tool_calls :
                        LET answers ==
                                {j \in DOMAIN messages :
                                    /\ messages[j].role = "tool"
                                    /\ messages[j].tool_call_id =
                                         messages[i].tool_calls[k].id}
                        IN  /\ Cardinality(answers) = 1
                            /\ \A j \in answers :
                                 /\ j > i
                                 /\ \A m \in (i + 1)..j :
                                      messages[m].role # "assistant")
    /\ [][ messages' # messages =>
             \/ messages = <<>> /\ Len(messages') = 2
             \/ /\ messages # <<>>
                /\ Len(messages') > Len(messages)
                /\ SubSeq(messages', 1, Len(messages)) = messages
       ]_vars

C20_Witness ==
    /\ pc = "loop"
    /\ provider_calls = 2
    /\ TurnsWithToolCalls = 2
    /\ Len(all_tool_results) = 3
    /\ IsDirective(Last(messages))

(***************************************************************************)
(* C18: for every ordered edge list the compiled successor map has the     *)
(* sources with a non-empty successor as its keys and maps each to the     *)
(* successor of the last edge naming it with a non-empty successor; the    *)
(* compiled tool set is exactly the identifiers occurring as a source or   *)
(* as a non-empty successor.  The prompt is built from the same map.       *)
(***************************************************************************)
C18_CompiledFlowAndTools ==
    pc # "start" =>
        LET edges == request.tools
            WithSuccessor(t) ==
                {i \in DOMAIN edges :
                    edges[i].tool = t /\ edges[i].next_tool \notin {None, ""}}
            Sources == {edges[i].tool : i \in
                           {j \in DOMAIN edges :
                               edges[j].next_tool \notin {None, ""}}}
            Greatest(S) == CHOOSE i \in S : \A j \in S : j <= i
        IN  /\ DOMAIN tool_flow = Sources
            /\ \A t \in Sources :
                 tool_flow[t] = edges[Greatest(WithSuccessor(t))].next_tool
            /\ available_tools =
                 {edges[i].tool : i \in DOMAIN edges} \cup
                 {tool_flow[t] : t \in Sources} \cup
                 {edges[i].next_tool : i \in
                     {j \in DOMAIN edges : edges[j].next_tool \notin {None, ""}}}
            /\ \A t \in available_tools :
                 \E i \in DOMAIN edges :
                     \/ edges[i].tool = t
                     \/ edges[i].next_tool = t /\ t \notin {None, ""}
            /\ messages # <<>> =>
                 /\ messages[1].content.flow_lines = tool_flow
                 /\ messages[1].content.tools = available_tools

C18_Witness ==
    /\ pc = "loop"
    /\ Len(request.tools) = 2
    /\ request.tools[1] = ToolConnection("airdrop", "deposit_yield")
    /\ request.tools[2] = ToolConnection("airdrop", "")
    /\ tool_flow["airdrop"] = "deposit_yield"
    /\ available_tools = {"airdrop", "deposit_yield"}

(***************************************************************************)
(* What a request's state may hold of a secret: the private key of the     *)
(* request itself in the prompt and in the call records, besides a key the *)
(* provider put into the arguments; and the response carries the request's *)
(* own logs.                                                               *)
(***************************************************************************)
OwnStateOnly(st) ==
    /\ st.available_tools \in {{}, UniqueTools(st.request.tools)}
    /\ st.messages # <<>> =>
         st.messages[1].content.context_key = st.request.private_key
    /\ \A i \in DOMAIN st.all_tool_calls :
         "privateKey" \in DOMAIN st.all_tool_calls[i].parameters =>
             st.all_tool_calls[i].parameters.privateKey
                 \in {st.request.private_key, "mk"}
    /\ st.response.kind = "ok" =>
         /\ st.response.tool_calls = st.all_tool_calls
         /\ st.response.results = st.all_tool_results

(***************************************************************************)
(* C16: with two requests in flight and their steps interleaved in any     *)
(* order, a step of one request leaves the history, the logs, the counter  *)
(* and the secret of the other as they were, each request's state and      *)
(* response hold its own records and secret only, and no step modifies the *)
(* tool catalog.                                                           *)
(***************************************************************************)
C16_RequestsIsolated ==
    /\ [](/\ catalog = TOOL_DEFINITIONS
          /\ OwnStateOnly(Local)
          /\ OwnStateOnly(peer))
    /\ [][\/ peer' = peer /\ request' = request
          \/ peer' = Local /\ Local' = peer]_vars

C16_Witness ==
    /\ request.private_key = "sk2"
    /\ peer.request.private_key = "sk"
    /\ pc = "tool_call"
    /\ Len(http_requests) = 1
    /\ http_requests[1].tool = "get_balance"
    /\ http_requests[1].address = "0xA"
    /\ peer.pc = "execute"
    /\ Last(peer.all_tool_calls) =
         [tool |-> "airdrop", parameters |-> [privateKey |-> "sk"]]

(***************************************************************************)
(* C21: whenever the driver returns, the HTTP requests sent to tool        *)
(* endpoints are as many as the tool-result records, failed requests       *)
(* included; the k-th request went to the tool of the k-th result with the *)
(* verb the catalog declares for it.                                       *)
(***************************************************************************)
C21_OneRequestPerResult ==
    result # NoResponse =>
        /\ Len(http_requests) = Len(all_tool_results)
        /\ \A k \in DOMAIN http_requests :
             /\ http_requests[k].tool = all_tool_results[k].tool
             /\ http_requests[k].method =
                    TOOL_DEFINITIONS[all_tool_results[k].tool].method

C21_Witness ==
    /\ result # NoResponse
    /\ Len(all_tool_results) = 2
    /\ ~all_tool_results[1].success
    /\ all_tool_results[2].success
    /\ http_requests[1].method = "GET"
    /\ http_requests[2].method = "POST"

(***************************************************************************)
(* C22: when the endpoint has a path placeholder and the call supplies the *)
(* address, the address goes into the URL and, for a GET, the outgoing     *)
(* parameter mapping is the supplied mapping without the address field;    *)
(* the call record in the log keeps all its fields.                        *)
(***************************************************************************)
C22_OnlySubstitutedFieldRemoved ==
    \A k \in DOMAIN http_requests :
        LET call == all_tool_calls[k]
            sent == http_requests[k]
        IN  ( /\ TOOL_DEFINITIONS[sent.tool].placeholder
              /\ "address" \in DOMAIN call.parameters ) =>
                /\ sent.address = call.parameters.address
                /\ sent.method = "GET" =>
                     sent.parameters =
                        [f \in DOMAIN call.parameters \ {"address"} |->
                            call.parameters[f]]

(***************************************************************************)
(* C23: every HTTP request sent to a tool endpoint is for a tool of the    *)
(* request's compiled available-tool set.                                  *)
(***************************************************************************)
C23_ExecutedToolsWereDeclared ==
    \A k \in DOMAIN http_requests : http_requests[k].tool \in available_tools

(***************************************************************************)
(* C24: a request whose edges name tool types of the workflow builder     *)
(* only (each of them being a catalog identifier) is not rejected by the   *)
(* validation of lines 433-436.                                            *)
(***************************************************************************)
C24_BuilderGraphsAccepted ==
    ( \A i \in DOMAIN request.tools :
         /\ request.tools[i].tool \in AVAILABLE_TOOLS
         /\ request.tools[i].next_tool \in AVAILABLE_TOOLS \cup {None, ""} )
    => ~(exc.type = "HTTPException" /\ exc.site = "validate")

====
